---- MODULE Spec2Model ----
(***************************************************************************)
(* Model of the credential cache of spotik-gpt (src/app.py): the class     *)
(* TokenStorage, its snapshot file tokens.json, and the request handlers   *)
(* that call set_tokens (callback) and get_tokens (require_auth and the    *)
(* endpoints).  app.run() starts the threaded development server, so the   *)
(* handlers run on concurrent threads over one shared TokenStorage; the    *)
(* class holds no lock.  Each action below is one step that the            *)
(* interpreter executes without releasing the GIL in between, or one       *)
(* blocking call (the token POST, a file open, a file write).              *)
(*                                                                         *)
(* Time is counted in units of five minutes: datetime.now() is the         *)
(* variable now, timedelta(minutes=5) is 1 and 3600 seconds are 12.  The   *)
(* local steps of a handler take far less than one unit, so the clock      *)
(* advances only while every thread is idle or waits for the token         *)
(* endpoint.                                                               *)
(*                                                                         *)
(* The key order of the dict and of the JSON document is abstracted to a   *)
(* fixed order of the user ids; no property here depends on it.            *)
(*                                                                         *)
(* The second part models the playlist handlers find_duplicates,           *)
(* remove_duplicates, shuffle_smart and generate_playlist against the      *)
(* remote API: one request at a time, one action per remote call or local  *)
(* loop.  Batches keep the size 100 of the source; playlists longer than   *)
(* one batch are short patterns of items with every item repeated.         *)
(***************************************************************************)
EXTENDS Integers, Sequences, FiniteSets, TLC

\* ---------------------------------------------------------------- bounds
StartTime == 2
MaxTicks == 1
MaxOps == 2
\* the longest pattern a playlist is built from
MaxLen == 3
\* the number of items the remote puts on one page
PageSize == 100
\* the copies of a repeated page the list of a pagination loop holds
MaxRevisits == 2

\* ------------------------------------------------------------- constants
Skew == 1
DefaultExpiresIn == 12
UnitsPerHour == 12
\* the step of the range(0, len, 100) loops and the width of their slices
BatchSize == 100

Threads == {1, 2}
UserSeq == <<"u1", "u2">>
Users == {UserSeq[i] : i \in 1..Len(UserSeq)}
\* the access token the token endpoint issues in this run; the snapshot of
\* an earlier run may hold the older "a1"
AccessTokens == {"a2"}
RefreshTokens == {"r1", "r2"}
\* the lifetime a token response may report: ten minutes
Lifetimes == {2}

\* Python's None as a record value
None == [none |-> TRUE]
\* a key missing from a token response
NoLifetime == -1
NoToken == ""
\* `url` when data.get("next") is None
NoUrl == -1
NoResponse == [access_token |-> "", expires_in |-> NoLifetime,
               refresh_token |-> NoToken]

VARIABLES
    tokens,        \* TokenStorage._tokens: user id -> record, None when absent
    file,          \* tokens.json as a sequence of cells, <<>> when absent/empty
    now,           \* datetime.now()
    pc,            \* per thread: position inside the handler
    op,            \* per thread: "get" or "set", the call in progress
    usr,           \* per thread: user_id argument
    tok,           \* per thread: local `tokens` of get_tokens (line 74)
    rt,            \* per thread: refresh_token argument of _refresh_token
    rdata,         \* per thread: local `data` of _refresh_token (line 97)
    data,          \* per thread: local `data` of _save_tokens
    iterLen,       \* per thread: dict size when the thread assigned its record
    ret,           \* per thread: value returned by get_tokens
    calls,         \* per thread: token POSTs issued by the get_tokens in progress
    callTime,      \* per thread: now when the call in progress started
    nOps,          \* callbacks, refresh POSTs, direct reads and restarts so far
    loaded         \* _tokens is as _load_tokens left it

\* the playlist pipeline: one request of /remove-duplicates, /duplicates,
\* /shuffle-smart or /generate-playlist against the remote API
VARIABLES
    remote,        \* the playlist on the remote, a sequence of items
    looping,       \* the remote answers every page with the cursor it was asked
    endpoint,      \* the handler that serves the request
    at,            \* position inside the handler
    url,           \* local `url` of the pagination loop
    tracks,        \* local `tracks`
    duplicates,    \* local `duplicates`
    batchStart,    \* loop variable `i` of the range(0, len, 100) loops
    removed_count, \* local `removed_count`
    final_tracks,  \* local `final_tracks`
    features,      \* local `features` of shuffle_smart
    new_playlist,  \* the playlist generate_playlist created on the remote
    answer,        \* the HTTP answer of the handler
    sent,          \* the mutation calls issued so far, in order
    pageFailed,    \* a page fetch of this request got a non-2xx answer
    revisits       \* copies of a repeated page held in the list of the loop

cacheVars == <<tokens, file, now, pc, op, usr, tok, rt, rdata, data, iterLen,
               ret, calls, callTime, nOps, loaded>>

pipeVars == <<remote, looping, endpoint, at, url, tracks, duplicates,
              batchStart, removed_count, final_tracks, features,
              new_playlist, answer, sent, pageFailed, revisits>>

vars == <<tokens, file, now, pc, op, usr, tok, rt, rdata, data, iterLen, ret,
          calls, callTime, nOps, loaded, remote, looping, endpoint, at, url,
          tracks, duplicates, batchStart, removed_count, final_tracks,
          features, new_playlist, answer, sent, pageFailed, revisits>>

\* ------------------------------------------------------- pure operators

\* datetime.isoformat() / datetime.fromisoformat(): the text has an hour
\* field and a field of five-minute units within the hour
IsoFormat(d) == <<d \div UnitsPerHour, d % UnitsPerHour>>

FromIsoFormatDropsHour(s) == s[2]

FromIsoFormat(s) == s[1] * UnitsPerHour + s[2]

\* the dict literal of set_tokens
NewRecord(access_token, refresh_token, expires_in, t) ==
    [access_token |-> access_token,
     refresh_token |-> refresh_token,
     expires_at |-> t + expires_in]

IsStaleFlipped(rec, t) == t + Skew <= rec.expires_at

\* the test of get_tokens: now + 5 minutes >= expires_at
IsStale(rec, t) == t + Skew >= rec.expires_at

\* data.get("expires_in", 3600)
ExpiresInOf(resp) ==
    IF resp.expires_in = NoLifetime THEN DefaultExpiresIn ELSE resp.expires_in

RefreshTokenFromResponse(refresh_token, resp) ==
    IF resp.refresh_token # NoToken THEN resp.refresh_token ELSE refresh_token

\* the refresh token _refresh_token hands to set_tokens
RefreshTokenToStore(refresh_token, resp) == refresh_token

\* the bodies a successful refresh response may carry
Responses ==
    [access_token : AccessTokens,
     expires_in : Lifetimes \cup {NoLifetime},
     refresh_token : RefreshTokens \cup {NoToken}]

\* the bodies a successful authorization-code exchange may carry
AuthResponses ==
    [access_token : AccessTokens,
     expires_in : Lifetimes \cup {NoLifetime},
     refresh_token : RefreshTokens]

\* the loop of _save_tokens: one entry per user in the dict
SaveEntry(user_id, token_data) ==
    [kind |-> "entry",
     user |-> user_id,
     access_token |-> token_data.access_token,
     refresh_token |-> token_data.refresh_token,
     expires_at |-> IsoFormat(token_data.expires_at)]

RECURSIVE EntriesFrom(_, _)
EntriesFrom(m, i) ==
    IF i > Len(UserSeq) THEN <<>>
    ELSE (IF m[UserSeq[i]] = None THEN <<>>
          ELSE <<SaveEntry(UserSeq[i], m[UserSeq[i]])>>) \o EntriesFrom(m, i + 1)

SaveData(m) == EntriesFrom(m, 1)

\* json.dump: the document text, one cell per token
JsonDump(d) == <<[kind |-> "open"]>> \o d \o <<[kind |-> "close"]>>

\* open('tokens.json', 'w')
Truncate(f) == <<>>

\* the write of the buffered document through a descriptor at offset 0
WriteAtStart(f, doc) ==
    IF Len(f) > Len(doc) THEN doc \o SubSeq(f, Len(doc) + 1, Len(f)) ELSE doc

\* json.load succeeds exactly on one complete document
ParseOk(f) ==
    /\ Len(f) >= 2
    /\ f[1].kind = "open"
    /\ f[Len(f)].kind = "close"
    /\ \A i \in 2..(Len(f) - 1) : f[i].kind = "entry"

\* the loop of _load_tokens over the parsed document (a later key wins)
LoadEntry(e) ==
    [access_token |-> e.access_token,
     refresh_token |-> e.refresh_token,
     expires_at |-> FromIsoFormat(e.expires_at)]

LoadTokens(f) ==
    IF ~ParseOk(f) THEN [u \in Users |-> None]
    ELSE [u \in Users |->
            LET idx == {i \in 2..(Len(f) - 1) : f[i].user = u}
            IN IF idx = {} THEN None
               ELSE LoadEntry(f[CHOOSE i \in idx : \A j \in idx : j <= i])]

NumTokens(m) == Cardinality({u \in Users : m[u] # None})

\* tokens.json at process start: absent, or written by an earlier run of the
\* program whose records have aged since
OldRecord == [access_token |-> "a1", refresh_token |-> "r1", expires_at |-> 0]

LiveRecord == [access_token |-> "a2", refresh_token |-> "r2", expires_at |-> 13]

Snapshots ==
    {<<>>,
     JsonDump(SaveData([u \in Users |-> IF u = "u1" THEN OldRecord ELSE None])),
     JsonDump(SaveData([u \in Users |->
                          IF u = "u1" THEN OldRecord ELSE LiveRecord]))}

\* ------------------------------------------- playlist pipeline: data

\* an entry of a playlist page whose "track" is null
NullItem ==
    [track |-> FALSE, uri |-> "", name |-> "", artist |-> "", album |-> "",
     duration_ms |-> 0]

\* an entry of a playlist page: item["track"] with its uri, name, the name
\* of its first artist, the name of its album and its duration
TrackItem(uri, name, artist, album, duration_ms) ==
    [track |-> TRUE, uri |-> uri, name |-> name, artist |-> artist,
     album |-> album, duration_ms |-> duration_ms]

\* the entries a playlist may hold: "u:1" and "u:3" are the same title by
\* the same artist on two albums
Items ==
    {TrackItem("u:1", "A", "X", "L1", 1),
     TrackItem("u:2", "B", "Y", "L2", 2),
     TrackItem("u:3", "A", "X", "L3", 1),
     NullItem}

ShortLists == UNION {[1..n -> Items] : n \in 0..MaxLen}

\* playlists longer than one page and one batch are patterns whose entries
\* are each repeated
Repeats == {1, 50, 51}

Replicate(s, k) == [j \in 1..(Len(s) * k) |-> s[((j - 1) \div k) + 1]]

Playlists == {Replicate(s, k) : s \in ShortLists, k \in Repeats}

ItemOf(uri) == CHOOSE it \in Items : it.track /\ it.uri = uri

\* the audio features of a track: danceability, energy, valence
AudioFeatures(uri) ==
    IF uri = "u:2" THEN <<1, 2, 1>> ELSE <<2, 1, 1>>

Min(a, b) == IF a <= b THEN a ELSE b

\* list[a:b]
SliceDropsLast(list, a, b) == SubSeq(list, a + 1, Min(b, Len(list)) - 1)

Slice(list, a, b) == SubSeq(list, a + 1, Min(b, Len(list)))

\* range(start, stop, step)
RECURSIVE Range(_, _, _)
Range(start, stop, step) ==
    IF start >= stop THEN <<>>
    ELSE <<start>> \o Range(start + step, stop, step)

\* the page of playlist pl the remote serves for cursor `offset`
PageItems(pl, offset) == Slice(pl, offset, offset + PageSize)

\* the "next" of that page; a looping remote repeats the cursor it was asked
PageNext(pl, offset, loops) ==
    IF loops THEN offset
    ELSE IF offset + PageSize < Len(pl) THEN offset + PageSize ELSE NoUrl

\* remove_duplicates, line 412: the key of a track
Key2(track) == <<track.name, track.artist>>

\* find_duplicates, line 365: the key of a track
Key4(t) == <<t.name, t.artist, t.album, t.duration_ms>>

DedupStepForgets(ts, idx, st) ==
    LET item == ts[idx] IN
    IF ~item.track THEN st
    ELSE IF Key2(item) \in st.seen
         THEN [seen |-> st.seen \ {Key2(item)},
               duplicates |-> Append(st.duplicates,
                   [uri |-> item.uri, positions |-> <<idx - 1>>])]
         ELSE [seen |-> st.seen \cup {Key2(item)},
               duplicates |-> st.duplicates]

\* remove_duplicates, lines 408-423: the body of the loop for the item at
\* index idx (positions are counted from 0 in the code); `seen` is used for
\* membership only
DedupStep(ts, idx, st) ==
    LET item == ts[idx] IN
    IF ~item.track THEN st
    ELSE IF Key2(item) \in st.seen
         THEN [seen |-> st.seen,
               duplicates |-> Append(st.duplicates,
                   [uri |-> item.uri, positions |-> <<idx - 1>>])]
         ELSE [seen |-> st.seen \cup {Key2(item)},
               duplicates |-> st.duplicates]

\* the loop of lines 407-423 over the indices lo..hi in increasing order;
\* the range is split in halves to keep the evaluation shallow, and the
\* test (which always holds, `duplicates` only grows) makes the first half
\* complete before the second half starts
RECURSIVE DedupLoop(_, _, _, _)
DedupLoop(ts, lo, hi, st) ==
    IF lo > hi THEN st
    ELSE IF lo = hi THEN DedupStep(ts, lo, st)
    ELSE LET mid == (lo + hi) \div 2
             first == DedupLoop(ts, lo, mid, st)
         IN IF Len(first.duplicates) >= Len(st.duplicates)
            THEN DedupLoop(ts, mid + 1, hi, first)
            ELSE first

\* remove_duplicates, lines 405-423: `duplicates` after the loop
DuplicatesToRemove(ts) ==
    DedupLoop(ts, 1, Len(ts),
              [seen |-> {}, duplicates |-> <<>>]).duplicates

\* find_duplicates, lines 353-359: the dict built for an item with a track
TrackDict(item) ==
    [name |-> item.name, artist |-> item.artist, album |-> item.album,
     duration_ms |-> item.duration_ms, uri |-> item.uri]

\* find_duplicates, lines 350-359: the dicts of the items of one page
PageTracks(items) ==
    LET withTrack == SelectSeq(items, LAMBDA item : item.track)
    IN [j \in 1..Len(withTrack) |-> TrackDict(withTrack[j])]

FindStepForgets(ts, idx, st) ==
    LET t == ts[idx] IN
    IF Key4(t) \in st.seen
    THEN [seen |-> st.seen \ {Key4(t)},
          duplicates |-> Append(st.duplicates, t)]
    ELSE [seen |-> st.seen \cup {Key4(t)}, duplicates |-> st.duplicates]

\* find_duplicates, lines 365-369: the body of the loop
FindStep(ts, idx, st) ==
    LET t == ts[idx] IN
    IF Key4(t) \in st.seen
    THEN [seen |-> st.seen, duplicates |-> Append(st.duplicates, t)]
    ELSE [seen |-> st.seen \cup {Key4(t)}, duplicates |-> st.duplicates]

RECURSIVE FindLoop(_, _, _, _)
FindLoop(ts, lo, hi, st) ==
    IF lo > hi THEN st
    ELSE IF lo = hi THEN FindStep(ts, lo, st)
    ELSE LET mid == (lo + hi) \div 2
             first == FindLoop(ts, lo, mid, st)
         IN IF Len(first.duplicates) >= Len(st.duplicates)
            THEN FindLoop(ts, mid + 1, hi, first)
            ELSE first

\* find_duplicates, lines 362-369: `duplicates` after the loop
DuplicatesFound(ts) ==
    FindLoop(ts, 1, Len(ts),
             [seen |-> {}, duplicates |-> <<>>]).duplicates

\* shuffle_smart, line 492: the uris of the items of a page that have a track
PageUris(items) ==
    LET withTrack == SelectSeq(items, LAMBDA item : item.track)
    IN [j \in 1..Len(withTrack) |-> withTrack[j].uri]

\* the order of the sort key (danceability, energy, valence)
KeyLess(a, b) ==
    \/ a[1] < b[1]
    \/ a[1] = b[1] /\ a[2] < b[2]
    \/ a[1] = b[1] /\ a[2] = b[2] /\ a[3] < b[3]

\* shuffle_smart, lines 508-509: sorted() is stable, so the result is, for
\* each key in increasing order, the tracks with that key in their order
RECURSIVE SortedFrom(_, _)
SortedFrom(pairs, keys) ==
    IF keys = {} THEN <<>>
    ELSE LET k == CHOOSE x \in keys : \A y \in keys : ~KeyLess(y, x)
             sel == SelectSeq(pairs, LAMBDA pr : pr[2] = k)
         IN [j \in 1..Len(sel) |-> sel[j][1]] \o SortedFrom(pairs, keys \ {k})

SortedTracks(ts, fs) ==
    LET n == Min(Len(ts), Len(fs))
        pairs == [j \in 1..n |-> <<ts[j], fs[j]>>]
    IN SortedFrom(pairs, {fs[j] : j \in 1..n})

\* the remote accepts a DELETE whose entries each name the uri that stands
\* at the given position of the playlist
ValidDelete(pl, batch) ==
    \A e \in 1..Len(batch) :
        LET pos == batch[e].positions[1]
        IN /\ pos < Len(pl)
           /\ pl[pos + 1].track
           /\ pl[pos + 1].uri = batch[e].uri

\* the playlist after the remote removed the entries at those positions
ApplyDelete(pl, batch) ==
    LET gone == {batch[e].positions[1] + 1 : e \in 1..Len(batch)}
        numbered == [j \in 1..Len(pl) |-> <<j, pl[j]>>]
        kept == SelectSeq(numbered, LAMBDA pr : pr[1] \notin gone)
    IN [j \in 1..Len(kept) |-> kept[j][2]]

\* the playlist items the remote makes of the uris of a PUT or POST
ItemsOfUris(uris) == [j \in 1..Len(uris) |-> ItemOf(uris[j])]

NoAnswer == [code |-> 0, body |-> "none"]

PipelineIdle ==
    /\ remote = <<>>
    /\ looping = FALSE
    /\ endpoint = "none"
    /\ at = "idle"
    /\ url = NoUrl
    /\ tracks = <<>>
    /\ duplicates = <<>>
    /\ batchStart = 0
    /\ removed_count = 0
    /\ final_tracks = <<>>
    /\ features = <<>>
    /\ new_playlist = <<>>
    /\ answer = NoAnswer
    /\ sent = <<>>
    /\ pageFailed = FALSE
    /\ revisits = 0

\* ------------------------------------------------------------------ Init
Init ==
    /\ file \in Snapshots
    /\ tokens = LoadTokens(file)
    /\ now = StartTime
    /\ pc = [t \in Threads |-> "idle"]
    /\ op = [t \in Threads |-> "none"]
    /\ usr = [t \in Threads |-> "u1"]
    /\ tok = [t \in Threads |-> None]
    /\ rt = [t \in Threads |-> NoToken]
    /\ rdata = [t \in Threads |-> NoResponse]
    /\ data = [t \in Threads |-> <<>>]
    /\ iterLen = [t \in Threads |-> 0]
    /\ ret = [t \in Threads |-> None]
    /\ calls = [t \in Threads |-> 0]
    /\ callTime = [t \in Threads |-> 0]
    /\ nOps = 0
    /\ loaded = TRUE
    /\ PipelineIdle

\* --------------------------------------------------------------- actions

\* the clock advances
Tick ==
    /\ now < StartTime + MaxTicks
    /\ \A t \in Threads : pc[t] \in {"idle", "refreshing"}
    /\ now' = now + 1
    /\ UNCHANGED <<tokens, file, pc, op, usr, tok, rt, rdata, data, iterLen,
                   ret, calls, callTime, nOps, loaded>>
    /\ UNCHANGED pipeVars

GetNotAuthorizedCreates(t, u) ==
    /\ pc[t] = "idle"
    /\ tokens[u] = None
    /\ tokens' = [tokens EXCEPT ![u] = NewRecord("", "", 0, now)]
    /\ ret' = [ret EXCEPT ![t] = tokens'[u]]
    /\ op' = [op EXCEPT ![t] = "get"]
    /\ usr' = [usr EXCEPT ![t] = u]
    /\ callTime' = [callTime EXCEPT ![t] = now]
    /\ pc' = [pc EXCEPT ![t] = "returned"]
    /\ UNCHANGED <<file, now, tok, rt, rdata, data, iterLen, calls, nOps,
                   loaded>>
    /\ UNCHANGED pipeVars

\* get_tokens, lines 71-72: no record
GetNotAuthorized(t, u) ==
    /\ pc[t] = "idle"
    /\ tokens[u] = None
    /\ ret' = [ret EXCEPT ![t] = None]
    /\ op' = [op EXCEPT ![t] = "get"]
    /\ usr' = [usr EXCEPT ![t] = u]
    /\ callTime' = [callTime EXCEPT ![t] = now]
    /\ pc' = [pc EXCEPT ![t] = "returned"]
    /\ UNCHANGED <<tokens, file, now, tok, rt, rdata, data, iterLen, calls,
                   nOps, loaded>>
    /\ UNCHANGED pipeVars

\* get_tokens, lines 74-76 and 82: the record is not close to expiring
GetFresh(t, u) ==
    /\ pc[t] = "idle"
    /\ tokens[u] # None
    /\ ~IsStale(tokens[u], now)
    /\ ret' = [ret EXCEPT ![t] = tokens[u]]
    /\ op' = [op EXCEPT ![t] = "get"]
    /\ usr' = [usr EXCEPT ![t] = u]
    /\ tok' = [tok EXCEPT ![t] = tokens[u]]
    /\ callTime' = [callTime EXCEPT ![t] = now]
    /\ pc' = [pc EXCEPT ![t] = "returned"]
    /\ UNCHANGED <<tokens, file, now, rt, rdata, data, iterLen, calls, nOps,
                   loaded>>
    /\ UNCHANGED pipeVars

\* get_me, lines 248-255 (find_duplicates 338-342 and the other handlers that
\* read token_storage._tokens themselves do the same): without a record the
\* handler answers 401; otherwise it takes the access token of the stored
\* record as it is, with no staleness test and no refresh, and calls the
\* remote with it; the request counts in the budget of requests served
GetMe(t, u) ==
    /\ pc[t] = "idle"
    /\ nOps < MaxOps
    /\ ret' = [ret EXCEPT ![t] = tokens[u]]
    /\ op' = [op EXCEPT ![t] = "get_me"]
    /\ usr' = [usr EXCEPT ![t] = u]
    /\ tok' = [tok EXCEPT ![t] = tokens[u]]
    /\ callTime' = [callTime EXCEPT ![t] = now]
    /\ pc' = [pc EXCEPT ![t] = "returned"]
    /\ nOps' = nOps + 1
    /\ UNCHANGED <<tokens, file, now, rt, rdata, data, iterLen, calls, loaded>>
    /\ UNCHANGED pipeVars

\* get_tokens, lines 74-77, and _refresh_token up to the POST (lines 85-95)
GetStale(t, u) ==
    /\ pc[t] = "idle"
    /\ nOps < MaxOps
    /\ tokens[u] # None
    /\ IsStale(tokens[u], now)
    /\ op' = [op EXCEPT ![t] = "get"]
    /\ usr' = [usr EXCEPT ![t] = u]
    /\ tok' = [tok EXCEPT ![t] = tokens[u]]
    /\ rt' = [rt EXCEPT ![t] = tokens[u].refresh_token]
    /\ ret' = [ret EXCEPT ![t] = None]
    /\ calls' = [calls EXCEPT ![t] = 1]
    /\ callTime' = [callTime EXCEPT ![t] = now]
    /\ nOps' = nOps + 1
    /\ pc' = [pc EXCEPT ![t] = "refreshing"]
    /\ UNCHANGED <<tokens, file, now, rdata, data, iterLen, loaded>>
    /\ UNCHANGED pipeVars

\* _refresh_token, lines 96-104: the POST succeeded; set_tokens assigns
RefreshOk(t, resp) ==
    /\ pc[t] = "refreshing"
    /\ rdata' = [rdata EXCEPT ![t] = resp]
    /\ tokens' = [tokens EXCEPT ![usr[t]] =
                    NewRecord(resp.access_token,
                              RefreshTokenToStore(rt[t], resp),
                              ExpiresInOf(resp), now)]
    /\ loaded' = FALSE
    /\ iterLen' = [iterLen EXCEPT ![t] = NumTokens(tokens')]
    /\ pc' = [pc EXCEPT ![t] = "save_iter"]
    /\ UNCHANGED <<file, now, op, usr, tok, rt, data, ret, calls, callTime,
                   nOps>>
    /\ UNCHANGED pipeVars

RefreshFailEvicts(t) ==
    /\ pc[t] = "refreshing"
    /\ tokens' = [tokens EXCEPT ![usr[t]] = None]
    /\ ret' = [ret EXCEPT ![t] = None]
    /\ pc' = [pc EXCEPT ![t] = "returned"]
    /\ UNCHANGED <<file, now, op, usr, tok, rt, rdata, data, iterLen, calls,
                   callTime, nOps, loaded>>
    /\ UNCHANGED pipeVars

\* _refresh_token, lines 107-109, and get_tokens line 80: the POST failed
RefreshFail(t) ==
    /\ pc[t] = "refreshing"
    /\ ret' = [ret EXCEPT ![t] = None]
    /\ pc' = [pc EXCEPT ![t] = "returned"]
    /\ UNCHANGED <<tokens, file, now, op, usr, tok, rt, rdata, data, iterLen,
                   calls, callTime, nOps, loaded>>
    /\ UNCHANGED pipeVars

CallbackReplacesMap(t, u, resp) ==
    /\ pc[t] = "idle"
    /\ nOps < MaxOps
    /\ nOps' = nOps + 1
    /\ tokens' = [v \in Users |->
                    IF v = u
                    THEN NewRecord(resp.access_token, resp.refresh_token,
                                   ExpiresInOf(resp), now)
                    ELSE None]
    /\ loaded' = FALSE
    /\ op' = [op EXCEPT ![t] = "set"]
    /\ usr' = [usr EXCEPT ![t] = u]
    /\ ret' = [ret EXCEPT ![t] = None]
    /\ callTime' = [callTime EXCEPT ![t] = now]
    /\ iterLen' = [iterLen EXCEPT ![t] = NumTokens(tokens')]
    /\ pc' = [pc EXCEPT ![t] = "save_iter"]
    /\ UNCHANGED <<file, now, tok, rt, rdata, data, calls>>
    /\ UNCHANGED pipeVars

\* callback, lines 177-195: the token response `data` of an authorization
\* is stored for user u; set_tokens assigns the record (lines 63-67)
Callback(t, u, resp) ==
    /\ pc[t] = "idle"
    /\ nOps < MaxOps
    /\ nOps' = nOps + 1
    /\ tokens' = [tokens EXCEPT ![u] =
                    NewRecord(resp.access_token, resp.refresh_token,
                              ExpiresInOf(resp), now)]
    /\ loaded' = FALSE
    /\ op' = [op EXCEPT ![t] = "set"]
    /\ usr' = [usr EXCEPT ![t] = u]
    /\ ret' = [ret EXCEPT ![t] = None]
    /\ callTime' = [callTime EXCEPT ![t] = now]
    /\ iterLen' = [iterLen EXCEPT ![t] = NumTokens(tokens')]
    /\ pc' = [pc EXCEPT ![t] = "save_iter"]
    /\ UNCHANGED <<file, now, tok, rt, rdata, data, calls>>
    /\ UNCHANGED pipeVars

CallbackKeyErrorStores(t, u, resp) ==
    /\ pc[t] = "idle"
    /\ resp.refresh_token = NoToken
    /\ tokens' = [tokens EXCEPT ![u] =
                    NewRecord(resp.access_token, resp.refresh_token,
                              ExpiresInOf(resp), now)]
    /\ loaded' = FALSE
    /\ op' = [op EXCEPT ![t] = "set"]
    /\ usr' = [usr EXCEPT ![t] = u]
    /\ ret' = [ret EXCEPT ![t] = None]
    /\ callTime' = [callTime EXCEPT ![t] = now]
    /\ pc' = [pc EXCEPT ![t] = "returned"]
    /\ UNCHANGED <<file, now, tok, rt, rdata, data, iterLen, calls, nOps>>
    /\ UNCHANGED pipeVars

\* callback, lines 192-193 and 206-208: the token response has no
\* "refresh_token"; data["refresh_token"] raises KeyError before set_tokens
\* is called, and the handler answers 500
CallbackKeyError(t, u, resp) ==
    /\ pc[t] = "idle"
    /\ resp.refresh_token = NoToken
    /\ op' = [op EXCEPT ![t] = "set"]
    /\ usr' = [usr EXCEPT ![t] = u]
    /\ ret' = [ret EXCEPT ![t] = None]
    /\ callTime' = [callTime EXCEPT ![t] = now]
    /\ pc' = [pc EXCEPT ![t] = "returned"]
    /\ UNCHANGED <<tokens, file, now, tok, rt, rdata, data, iterLen, calls,
                   nOps, loaded>>
    /\ UNCHANGED pipeVars

\* _save_tokens, lines 49-56: the loop builds data
SaveIter(t) ==
    /\ pc[t] = "save_iter"
    /\ data' = [data EXCEPT ![t] = SaveData(tokens)]
    /\ iterLen' = [iterLen EXCEPT ![t] = 0]
    /\ pc' = [pc EXCEPT ![t] = "save_open"]
    /\ UNCHANGED <<tokens, file, now, op, usr, tok, rt, rdata, ret, calls,
                   callTime, nOps, loaded>>
    /\ UNCHANGED pipeVars

\* _save_tokens, lines 50 and 59-60: another thread added a key after this
\* thread's assignment; when that happened while the loop was running the
\* iterator raises RuntimeError, the handler at line 59 logs it, nothing is
\* written, and set_tokens returns (for a refresh, line 106 and line 79)
SaveIterError(t) ==
    /\ pc[t] = "save_iter"
    /\ NumTokens(tokens) # iterLen[t]
    /\ iterLen' = [iterLen EXCEPT ![t] = 0]
    /\ ret' = [ret EXCEPT ![t] = IF op[t] = "get" THEN tokens[usr[t]] ELSE None]
    /\ pc' = [pc EXCEPT ![t] = "returned"]
    /\ UNCHANGED <<tokens, file, now, op, usr, tok, rt, rdata, data, calls,
                   callTime, nOps, loaded>>
    /\ UNCHANGED pipeVars

\* _save_tokens, line 57: open(..., 'w') truncates the file
SaveOpen(t) ==
    /\ pc[t] = "save_open"
    /\ file' = Truncate(file)
    /\ pc' = [pc EXCEPT ![t] = "save_write"]
    /\ UNCHANGED <<tokens, now, op, usr, tok, rt, rdata, data, iterLen, ret,
                   calls, callTime, nOps, loaded>>
    /\ UNCHANGED pipeVars

SaveWriteReturnsStale(t) ==
    /\ pc[t] = "save_write"
    /\ file' = WriteAtStart(file, JsonDump(data[t]))
    /\ data' = [data EXCEPT ![t] = <<>>]
    /\ ret' = [ret EXCEPT ![t] = IF op[t] = "get" THEN tok[t] ELSE None]
    /\ pc' = [pc EXCEPT ![t] = "returned"]
    /\ UNCHANGED <<tokens, now, op, usr, tok, rt, rdata, iterLen, calls,
                   callTime, nOps, loaded>>
    /\ UNCHANGED pipeVars

\* _save_tokens, line 58 and the close of the with block: the document is
\* written through this thread's descriptor; then set_tokens returns (for a
\* refresh, line 106 and get_tokens line 79 return the stored record)
SaveWrite(t) ==
    /\ pc[t] = "save_write"
    /\ file' = WriteAtStart(file, JsonDump(data[t]))
    /\ data' = [data EXCEPT ![t] = <<>>]
    /\ ret' = [ret EXCEPT ![t] = IF op[t] = "get" THEN tokens[usr[t]] ELSE None]
    /\ pc' = [pc EXCEPT ![t] = "returned"]
    /\ UNCHANGED <<tokens, now, op, usr, tok, rt, rdata, iterLen, calls,
                   callTime, nOps, loaded>>
    /\ UNCHANGED pipeVars

\* the handler that made the call answers its request and the thread is free
Respond(t) ==
    /\ pc[t] = "returned"
    /\ ret' = [ret EXCEPT ![t] = None]
    /\ op' = [op EXCEPT ![t] = "none"]
    /\ usr' = [usr EXCEPT ![t] = "u1"]
    /\ tok' = [tok EXCEPT ![t] = None]
    /\ rt' = [rt EXCEPT ![t] = NoToken]
    /\ rdata' = [rdata EXCEPT ![t] = NoResponse]
    /\ calls' = [calls EXCEPT ![t] = 0]
    /\ callTime' = [callTime EXCEPT ![t] = 0]
    /\ pc' = [pc EXCEPT ![t] = "idle"]
    /\ UNCHANGED <<tokens, file, now, data, iterLen, nOps, loaded>>
    /\ UNCHANGED pipeVars

\* the process is stopped and started again: TokenStorage() loads the file
Restart ==
    /\ nOps < MaxOps
    /\ nOps' = nOps + 1
    /\ tokens' = LoadTokens(file)
    /\ loaded' = TRUE
    /\ pc' = [t \in Threads |-> "idle"]
    /\ op' = [t \in Threads |-> "none"]
    /\ usr' = [t \in Threads |-> "u1"]
    /\ tok' = [t \in Threads |-> None]
    /\ rt' = [t \in Threads |-> NoToken]
    /\ rdata' = [t \in Threads |-> NoResponse]
    /\ data' = [t \in Threads |-> <<>>]
    /\ iterLen' = [t \in Threads |-> 0]
    /\ ret' = [t \in Threads |-> None]
    /\ calls' = [t \in Threads |-> 0]
    /\ callTime' = [t \in Threads |-> 0]
    /\ UNCHANGED <<file, now>>
    /\ UNCHANGED pipeVars

Next ==
    \/ Tick
    \/ \E t \in Threads, u \in Users : GetNotAuthorized(t, u)
    \/ \E t \in Threads, u \in Users : GetFresh(t, u)
    \/ \E t \in Threads, u \in Users : GetStale(t, u)
    \/ \E t \in Threads, u \in Users : GetMe(t, u)
    \/ \E t \in Threads, resp \in Responses : RefreshOk(t, resp)
    \/ \E t \in Threads : RefreshFail(t)
    \/ \E t \in Threads, u \in Users, resp \in AuthResponses :
          Callback(t, u, resp)
    \/ \E t \in Threads, u \in Users, resp \in Responses :
          CallbackKeyError(t, u, resp)
    \/ \E t \in Threads : SaveIter(t)
    \/ \E t \in Threads : SaveIterError(t)
    \/ \E t \in Threads : SaveOpen(t)
    \/ \E t \in Threads : SaveWrite(t)
    \/ \E t \in Threads : Respond(t)
    \/ Restart

Spec == Init /\ [][Next]_vars

TypeOK ==
    /\ now \in StartTime..(StartTime + MaxTicks)
    /\ nOps \in 0..MaxOps
    /\ loaded \in BOOLEAN
    /\ \A t \in Threads : pc[t] \in {"idle", "refreshing", "save_iter",
                                    "save_open", "save_write", "returned"}

\* ---------------------------------------- playlist pipeline: handlers

\* one request is served by one handler; the requesting user has a fresh
\* record, so get_tokens returns it without a refresh
InitPipeline ==
    /\ file \in {f \in Snapshots : LoadTokens(f)["u2"] # None}
    /\ tokens = LoadTokens(file)
    /\ now = StartTime
    /\ pc = [t \in Threads |-> "idle"]
    /\ op = [t \in Threads |-> "none"]
    /\ usr = [t \in Threads |-> "u1"]
    /\ tok = [t \in Threads |-> None]
    /\ rt = [t \in Threads |-> NoToken]
    /\ rdata = [t \in Threads |-> NoResponse]
    /\ data = [t \in Threads |-> <<>>]
    /\ iterLen = [t \in Threads |-> 0]
    /\ ret = [t \in Threads |-> None]
    /\ calls = [t \in Threads |-> 0]
    /\ callTime = [t \in Threads |-> 0]
    /\ nOps = 0
    /\ loaded = TRUE
    /\ remote \in Playlists
    /\ looping \in BOOLEAN
    /\ endpoint = "none"
    /\ at = "idle"
    /\ url = NoUrl
    /\ tracks = <<>>
    /\ duplicates = <<>>
    /\ batchStart = 0
    /\ removed_count = 0
    /\ final_tracks = <<>>
    /\ features = <<>>
    /\ new_playlist = <<>>
    /\ answer = NoAnswer
    /\ sent = <<>>
    /\ pageFailed = FALSE
    /\ revisits = 0

\* a looping remote makes the list of a pagination loop grow without end by
\* copies of one page.  The model holds at most MaxRevisits copies: the fetch
\* after that starts the count again with one copy (the list of a looping
\* remote is never used, because its loop never ends)
Wrap(next) == next = url /\ revisits = MaxRevisits

Revisits(next) ==
    IF next = url THEN (IF Wrap(next) THEN 1 ELSE revisits + 1) ELSE revisits

\* a handler answers with an error and stops
Fail(code, body, page) ==
    /\ answer' = [code |-> code, body |-> body]
    /\ pageFailed' = (pageFailed \/ page)
    /\ at' = "done"

\* remove_duplicates, lines 376-394
RemoveDuplicatesStart ==
    /\ at = "idle"
    /\ endpoint' = "remove_duplicates"
    /\ url' = 0
    /\ tracks' = <<>>
    /\ at' = "fetch"
    /\ UNCHANGED <<remote, looping, duplicates, batchStart, removed_count,
                   final_tracks, features, new_playlist, answer, sent,
                   pageFailed, revisits>>
    /\ UNCHANGED cacheVars

RemoveDuplicatesFetchPageReplaces ==
    /\ endpoint = "remove_duplicates"
    /\ at = "fetch"
    /\ LET next == PageNext(remote, url, looping) IN
        /\ tracks' = PageItems(remote, url)
        /\ url' = next
        /\ revisits' = Revisits(next)
        /\ at' = IF next = NoUrl THEN "partition" ELSE "fetch"
    /\ UNCHANGED <<remote, looping, endpoint, duplicates, batchStart,
                   removed_count, final_tracks, features, new_playlist,
                   answer, sent, pageFailed>>
    /\ UNCHANGED cacheVars

\* remove_duplicates, lines 395-400: one iteration of `while url`, the page
\* fetch succeeded
RemoveDuplicatesFetchPage ==
    /\ endpoint = "remove_duplicates"
    /\ at = "fetch"
    /\ LET next == PageNext(remote, url, looping) IN
        /\ tracks' = IF Wrap(next) THEN PageItems(remote, url) ELSE tracks \o PageItems(remote, url)
        /\ url' = next
        /\ revisits' = Revisits(next)
        /\ at' = IF next = NoUrl THEN "partition" ELSE "fetch"
    /\ UNCHANGED <<remote, looping, endpoint, duplicates, batchStart,
                   removed_count, final_tracks, features, new_playlist,
                   answer, sent, pageFailed>>
    /\ UNCHANGED cacheVars

\* remove_duplicates, lines 396-397 and 463-465: the GET failed or
\* raise_for_status raised
RemoveDuplicatesFetchFail ==
    /\ endpoint = "remove_duplicates"
    /\ at = "fetch"
    /\ Fail(503, "Failed to communicate with Spotify API", TRUE)
    /\ UNCHANGED <<remote, looping, endpoint, url, tracks, duplicates,
                   batchStart, removed_count, final_tracks, features,
                   new_playlist, sent, revisits>>
    /\ UNCHANGED cacheVars

\* remove_duplicates, lines 405-429: the duplicates of the fetched list
RemoveDuplicatesPartition ==
    /\ endpoint = "remove_duplicates"
    /\ at = "partition"
    /\ duplicates' = DuplicatesToRemove(tracks)
    /\ IF duplicates' = <<>>
       THEN /\ answer' = [code |-> 200, body |-> "No duplicates found"]
            /\ at' = "done"
       ELSE /\ answer' = answer
            /\ at' = "delete"
    /\ batchStart' = 0
    /\ removed_count' = 0
    /\ UNCHANGED <<remote, looping, endpoint, url, tracks, final_tracks,
                   features, new_playlist, sent, pageFailed, revisits>>
    /\ UNCHANGED cacheVars

RemoveDuplicatesDeleteBatchCountsCalls ==
    /\ endpoint = "remove_duplicates"
    /\ at = "delete"
    /\ LET batch == Slice(duplicates, batchStart, batchStart + BatchSize) IN
        /\ ValidDelete(remote, batch)
        /\ remote' = ApplyDelete(remote, batch)
        /\ removed_count' = removed_count + 1
        /\ sent' = Append(sent, [method |-> "DELETE", entries |-> Len(batch),
                                 ok |-> TRUE])
    /\ batchStart' = batchStart + BatchSize
    /\ IF batchStart' >= Len(duplicates)
       THEN at' = "verify" /\ url' = 0
       ELSE at' = "delete" /\ url' = url
    /\ final_tracks' = <<>>
    /\ UNCHANGED <<looping, endpoint, tracks, duplicates, features,
                   new_playlist, answer, pageFailed, revisits>>
    /\ UNCHANGED cacheVars

\* remove_duplicates, lines 432-443: one iteration of the batch loop, the
\* DELETE succeeded; after the last batch the verification loop starts
\* (lines 446-447)
RemoveDuplicatesDeleteBatch ==
    /\ endpoint = "remove_duplicates"
    /\ at = "delete"
    /\ LET batch == Slice(duplicates, batchStart, batchStart + BatchSize) IN
        /\ ValidDelete(remote, batch)
        /\ remote' = ApplyDelete(remote, batch)
        /\ removed_count' = removed_count + Len(batch)
        /\ sent' = Append(sent, [method |-> "DELETE", entries |-> Len(batch),
                                 ok |-> TRUE])
    /\ batchStart' = batchStart + BatchSize
    /\ IF batchStart' >= Len(duplicates)
       THEN at' = "verify" /\ url' = 0
       ELSE at' = "delete" /\ url' = url
    /\ final_tracks' = <<>>
    /\ UNCHANGED <<looping, endpoint, tracks, duplicates, features,
                   new_playlist, answer, pageFailed, revisits>>
    /\ UNCHANGED cacheVars

\* remove_duplicates, lines 436-441 and 463-465: the DELETE failed or was
\* rejected and raise_for_status raised
RemoveDuplicatesDeleteFail ==
    /\ endpoint = "remove_duplicates"
    /\ at = "delete"
    /\ LET batch == Slice(duplicates, batchStart, batchStart + BatchSize) IN
        sent' = Append(sent, [method |-> "DELETE", entries |-> Len(batch),
                              ok |-> FALSE])
    /\ Fail(503, "Failed to communicate with Spotify API", FALSE)
    /\ UNCHANGED <<remote, looping, endpoint, url, tracks, duplicates,
                   batchStart, removed_count, final_tracks, features,
                   new_playlist, revisits>>
    /\ UNCHANGED cacheVars

\* remove_duplicates, lines 448-462: one iteration of the verification
\* loop; after the last page the handler answers
RemoveDuplicatesVerifyPage ==
    /\ endpoint = "remove_duplicates"
    /\ at = "verify"
    /\ LET next == PageNext(remote, url, looping) IN
        /\ final_tracks' = IF Wrap(next) THEN PageItems(remote, url) ELSE final_tracks \o PageItems(remote, url)
        /\ url' = next
        /\ revisits' = Revisits(next)
        /\ IF next = NoUrl
           THEN /\ at' = "done"
                /\ answer' = [code |-> 200,
                              body |-> [status |-> "success",
                                        removed_count |-> removed_count,
                                        remaining_tracks |->
                                            Len(final_tracks')]]
           ELSE /\ at' = "verify"
                /\ answer' = answer
    /\ UNCHANGED <<remote, looping, endpoint, tracks, duplicates, batchStart,
                   removed_count, features, new_playlist, sent, pageFailed>>
    /\ UNCHANGED cacheVars

\* remove_duplicates, lines 449-450 and 463-465
RemoveDuplicatesVerifyFail ==
    /\ endpoint = "remove_duplicates"
    /\ at = "verify"
    /\ Fail(503, "Failed to communicate with Spotify API", TRUE)
    /\ UNCHANGED <<remote, looping, endpoint, url, tracks, duplicates,
                   batchStart, removed_count, final_tracks, features,
                   new_playlist, sent, revisits>>
    /\ UNCHANGED cacheVars

\* find_duplicates, lines 336-344
FindDuplicatesStart ==
    /\ at = "idle"
    /\ endpoint' = "find_duplicates"
    /\ url' = 0
    /\ tracks' = <<>>
    /\ at' = "fetch"
    /\ UNCHANGED <<remote, looping, duplicates, batchStart, removed_count,
                   final_tracks, features, new_playlist, answer, sent,
                   pageFailed, revisits>>
    /\ UNCHANGED cacheVars

\* find_duplicates, lines 346-360: one iteration of `while url`, the page
\* fetch succeeded
FindDuplicatesFetchPage ==
    /\ endpoint = "find_duplicates"
    /\ at = "fetch"
    /\ LET next == PageNext(remote, url, looping) IN
        /\ tracks' = IF Wrap(next) THEN PageTracks(PageItems(remote, url)) ELSE tracks \o PageTracks(PageItems(remote, url))
        /\ url' = next
        /\ revisits' = Revisits(next)
        /\ at' = IF next = NoUrl THEN "partition" ELSE "fetch"
    /\ UNCHANGED <<remote, looping, endpoint, duplicates, batchStart,
                   removed_count, final_tracks, features, new_playlist,
                   answer, sent, pageFailed>>
    /\ UNCHANGED cacheVars

\* find_duplicates, lines 347-349 and 360: the remote answers non-2xx with a
\* JSON error body; the status is not tested, data.get("items", []) is empty
\* and data.get("next") is None, so the loop ends
FindDuplicatesFetchError ==
    /\ endpoint = "find_duplicates"
    /\ at = "fetch"
    /\ url' = NoUrl
    /\ pageFailed' = TRUE
    /\ at' = "partition"
    /\ UNCHANGED <<remote, looping, endpoint, tracks, duplicates, batchStart,
                   removed_count, final_tracks, features, new_playlist,
                   answer, sent, revisits>>
    /\ UNCHANGED cacheVars

\* find_duplicates, lines 347-348: the GET raises or the body is not JSON;
\* the handler catches nothing and the framework answers 500
FindDuplicatesFetchFail ==
    /\ endpoint = "find_duplicates"
    /\ at = "fetch"
    /\ Fail(500, "Internal Server Error", TRUE)
    /\ UNCHANGED <<remote, looping, endpoint, url, tracks, duplicates,
                   batchStart, removed_count, final_tracks, features,
                   new_playlist, sent, revisits>>
    /\ UNCHANGED cacheVars

\* find_duplicates, lines 362-371
FindDuplicatesPartition ==
    /\ endpoint = "find_duplicates"
    /\ at = "partition"
    /\ duplicates' = DuplicatesFound(tracks)
    /\ answer' = [code |-> 200, body |-> duplicates']
    /\ at' = "done"
    /\ UNCHANGED <<remote, looping, endpoint, url, tracks, batchStart,
                   removed_count, final_tracks, features, new_playlist, sent,
                   pageFailed, revisits>>
    /\ UNCHANGED cacheVars

\* shuffle_smart, lines 474-486
ShuffleSmartStart ==
    /\ at = "idle"
    /\ endpoint' = "shuffle_smart"
    /\ url' = 0
    /\ tracks' = <<>>
    /\ at' = "fetch"
    /\ UNCHANGED <<remote, looping, duplicates, batchStart, removed_count,
                   final_tracks, features, new_playlist, answer, sent,
                   pageFailed, revisits>>
    /\ UNCHANGED cacheVars

\* shuffle_smart, lines 488-493: one iteration of `while url`
ShuffleSmartFetchPage ==
    /\ endpoint = "shuffle_smart"
    /\ at = "fetch"
    /\ LET next == PageNext(remote, url, looping) IN
        /\ tracks' = IF Wrap(next) THEN PageUris(PageItems(remote, url)) ELSE tracks \o PageUris(PageItems(remote, url))
        /\ url' = next
        /\ revisits' = Revisits(next)
        /\ at' = IF next = NoUrl THEN "features" ELSE "fetch"
    /\ batchStart' = 0
    /\ features' = <<>>
    /\ UNCHANGED <<remote, looping, endpoint, duplicates, removed_count,
                   final_tracks, new_playlist, answer, sent, pageFailed>>
    /\ UNCHANGED cacheVars

\* shuffle_smart, lines 489-490 and 520-522
ShuffleSmartFetchFail ==
    /\ endpoint = "shuffle_smart"
    /\ at = "fetch"
    /\ Fail(500, "Failed to shuffle playlist", TRUE)
    /\ UNCHANGED <<remote, looping, endpoint, url, tracks, duplicates,
                   batchStart, removed_count, final_tracks, features,
                   new_playlist, sent, revisits>>
    /\ UNCHANGED cacheVars

\* shuffle_smart, lines 497-505: one iteration of the audio-features loop
ShuffleSmartFeatures ==
    /\ endpoint = "shuffle_smart"
    /\ at = "features"
    /\ batchStart < Len(tracks)
    /\ LET batch == Slice(tracks, batchStart, batchStart + BatchSize) IN
        features' = features \o
                        [j \in 1..Len(batch) |-> AudioFeatures(batch[j])]
    /\ batchStart' = batchStart + BatchSize
    /\ UNCHANGED <<remote, looping, endpoint, at, url, tracks, duplicates,
                   removed_count, final_tracks, new_playlist, answer, sent,
                   pageFailed, revisits>>
    /\ UNCHANGED cacheVars

\* shuffle_smart, lines 499-504 and 520-522
ShuffleSmartFeaturesFail ==
    /\ endpoint = "shuffle_smart"
    /\ at = "features"
    /\ batchStart < Len(tracks)
    /\ Fail(500, "Failed to shuffle playlist", FALSE)
    /\ UNCHANGED <<remote, looping, endpoint, url, tracks, duplicates,
                   batchStart, removed_count, final_tracks, features,
                   new_playlist, sent, revisits>>
    /\ UNCHANGED cacheVars

ShuffleSmartPutTwoPhase ==
    /\ endpoint = "shuffle_smart"
    /\ at = "features"
    /\ batchStart >= Len(tracks)
    /\ LET sorted_tracks == SortedTracks(tracks, features) IN
        /\ Len(sorted_tracks) <= BatchSize
        /\ remote' = ItemsOfUris(sorted_tracks)
        /\ sent' = sent \o
                     <<[method |-> "DELETE", entries |-> Len(remote),
                        ok |-> TRUE],
                       [method |-> "POST", entries |-> Len(sorted_tracks),
                        ok |-> TRUE]>>
    /\ answer' = [code |-> 200, body |-> "Playlist shuffled successfully"]
    /\ at' = "done"
    /\ UNCHANGED <<looping, endpoint, url, tracks, duplicates, batchStart,
                   removed_count, final_tracks, features, new_playlist,
                   pageFailed, revisits>>
    /\ UNCHANGED cacheVars

\* shuffle_smart, lines 508-519: the tracks are sorted and the playlist is
\* rewritten by one PUT of all uris; the remote takes at most 100 uris
ShuffleSmartPut ==
    /\ endpoint = "shuffle_smart"
    /\ at = "features"
    /\ batchStart >= Len(tracks)
    /\ LET sorted_tracks == SortedTracks(tracks, features) IN
        /\ Len(sorted_tracks) <= BatchSize
        /\ remote' = ItemsOfUris(sorted_tracks)
        /\ sent' = Append(sent, [method |-> "PUT",
                                 entries |-> Len(sorted_tracks), ok |-> TRUE])
    /\ answer' = [code |-> 200, body |-> "Playlist shuffled successfully"]
    /\ at' = "done"
    /\ UNCHANGED <<looping, endpoint, url, tracks, duplicates, batchStart,
                   removed_count, final_tracks, features, new_playlist,
                   pageFailed, revisits>>
    /\ UNCHANGED cacheVars

\* shuffle_smart, lines 512-517 and 520-522: the PUT failed or was rejected
ShuffleSmartPutFail ==
    /\ endpoint = "shuffle_smart"
    /\ at = "features"
    /\ batchStart >= Len(tracks)
    /\ LET sorted_tracks == SortedTracks(tracks, features) IN
        sent' = Append(sent, [method |-> "PUT",
                              entries |-> Len(sorted_tracks), ok |-> FALSE])
    /\ Fail(500, "Failed to shuffle playlist", FALSE)
    /\ UNCHANGED <<remote, looping, endpoint, url, tracks, duplicates,
                   batchStart, removed_count, final_tracks, features,
                   new_playlist, revisits>>
    /\ UNCHANGED cacheVars

\* generate_playlist, lines 527-610: the profile, the new playlist and the
\* recommendations are obtained; the remote recommends the tracks of its
\* list, and `tracks` holds track_uris
GeneratePlaylistStart ==
    /\ at = "idle"
    /\ endpoint' = "generate_playlist"
    /\ tracks' = PageUris(remote)
    /\ new_playlist' = <<>>
    /\ batchStart' = 0
    /\ IF tracks' = <<>>
       THEN /\ answer' = [code |-> 404, body |-> "No recommendations found"]
            /\ at' = "done"
       ELSE /\ answer' = answer
            /\ at' = "add"
    /\ UNCHANGED <<remote, looping, url, duplicates, removed_count,
                   final_tracks, features, sent, pageFailed, revisits>>
    /\ UNCHANGED cacheVars

\* generate_playlist, lines 554-556, 573-575 and 604-606: one of the three
\* calls failed
GeneratePlaylistStartFail ==
    /\ at = "idle"
    /\ endpoint' = "generate_playlist"
    /\ Fail(503, "Failed to get recommendations", FALSE)
    /\ UNCHANGED <<remote, looping, url, tracks, duplicates, batchStart,
                   removed_count, final_tracks, features, new_playlist, sent,
                   revisits>>
    /\ UNCHANGED cacheVars

\* generate_playlist, lines 611-630: one iteration of the batch
\* loop, the POST succeeded; after the last batch the handler answers
GeneratePlaylistAddBatch ==
    /\ endpoint = "generate_playlist"
    /\ at = "add"
    /\ LET batch == Slice(tracks, batchStart, batchStart + BatchSize) IN
        /\ new_playlist' = new_playlist \o ItemsOfUris(batch)
        /\ sent' = Append(sent, [method |-> "POST", entries |-> Len(batch),
                                 ok |-> TRUE])
    /\ batchStart' = batchStart + BatchSize
    /\ IF batchStart' >= Len(tracks)
       THEN /\ at' = "done"
            /\ answer' = [code |-> 200,
                          body |-> [status |-> "success",
                                    tracks_added |-> Len(tracks)]]
       ELSE /\ at' = "add"
            /\ answer' = answer
    /\ UNCHANGED <<remote, looping, endpoint, url, tracks, duplicates,
                   removed_count, final_tracks, features, pageFailed,
                   revisits>>
    /\ UNCHANGED cacheVars

\* generate_playlist, lines 613-622: the POST failed
GeneratePlaylistAddFail ==
    /\ endpoint = "generate_playlist"
    /\ at = "add"
    /\ LET batch == Slice(tracks, batchStart, batchStart + BatchSize) IN
        sent' = Append(sent, [method |-> "POST", entries |-> Len(batch),
                              ok |-> FALSE])
    /\ Fail(503, "Failed to add tracks to playlist", FALSE)
    /\ UNCHANGED <<remote, looping, endpoint, url, tracks, duplicates,
                   batchStart, removed_count, final_tracks, features,
                   new_playlist, revisits>>
    /\ UNCHANGED cacheVars

NextPipeline ==
    \/ RemoveDuplicatesStart
    \/ RemoveDuplicatesFetchPage
    \/ RemoveDuplicatesFetchFail
    \/ RemoveDuplicatesPartition
    \/ RemoveDuplicatesDeleteBatch
    \/ RemoveDuplicatesDeleteFail
    \/ RemoveDuplicatesVerifyPage
    \/ RemoveDuplicatesVerifyFail
    \/ FindDuplicatesStart
    \/ FindDuplicatesFetchPage
    \/ FindDuplicatesFetchError
    \/ FindDuplicatesFetchFail
    \/ FindDuplicatesPartition
    \/ ShuffleSmartStart
    \/ ShuffleSmartFetchPage
    \/ ShuffleSmartFetchFail
    \/ ShuffleSmartFeatures
    \/ ShuffleSmartFeaturesFail
    \/ ShuffleSmartPut
    \/ ShuffleSmartPutFail
    \/ GeneratePlaylistStart
    \/ GeneratePlaylistStartFail
    \/ GeneratePlaylistAddBatch
    \/ GeneratePlaylistAddFail

Pipeline == InitPipeline /\ [][NextPipeline]_vars

\* a page fetch that is under way completes: requests.get returns
PipelineLive ==
    /\ Pipeline
    /\ WF_vars(RemoveDuplicatesFetchPage)
    /\ WF_vars(FindDuplicatesFetchPage)
    /\ WF_vars(ShuffleSmartFetchPage)
    /\ WF_vars(RemoveDuplicatesVerifyPage)

PipelineTypeOK ==
    /\ endpoint \in {"none", "remove_duplicates", "find_duplicates",
                     "shuffle_smart", "generate_playlist"}
    /\ at \in {"idle", "fetch", "partition", "delete", "verify", "features",
               "add", "done"}
    /\ looping \in BOOLEAN
    /\ pageFailed \in BOOLEAN
    /\ revisits \in 0..MaxRevisits
    /\ url \in Nat \cup {NoUrl}

\* ---------------------------------------------------------------- claims

\* thread t enters get_tokens(u) in this step
GetCallStep(t, u) ==
    /\ pc[t] = "idle"
    /\ pc'[t] # "idle"
    /\ op'[t] = "get"
    /\ usr'[t] = u

\* thread t, in _refresh_token, passes the refreshed record to set_tokens
RefreshAssignStep(t) == pc[t] = "refreshing" /\ pc'[t] = "save_iter"

\* thread t returns from a get_tokens whose refresh succeeded
RefreshReturnStep(t) ==
    /\ pc[t] \in {"save_iter", "save_write"}
    /\ pc'[t] = "returned"
    /\ op[t] = "get"

\* thread t has returned from a get_tokens whose refresh failed
FailedRefreshReturned(t) ==
    /\ pc[t] = "returned"
    /\ op[t] = "get"
    /\ calls[t] = 1
    /\ ret[t] = None

NoSaveInProgress ==
    \A t \in Threads : pc[t] \notin {"save_iter", "save_open", "save_write"}

\* C1: refresh calls are serialized per user: two token POSTs for the same
\* user are never in flight at the same time.
C1_RefreshSerializedPerUser ==
    \A t1, t2 \in Threads :
        (t1 # t2 /\ pc[t1] = "refreshing" /\ pc[t2] = "refreshing")
            => usr[t1] # usr[t2]

\* C2: a get on a stored record with now + skew >= expires_at issues exactly
\* one refresh POST with the stored refresh token; when the POST succeeds the
\* access token and expiry of that user's record are replaced by the values of
\* the response and get returns the stored, updated record.  A get on a record
\* with now + skew < expires_at returns the stored record and issues no POST.
C2_GetRefreshesStaleRecord ==
    [][/\ \A t \in Threads, u \in Users :
            (GetCallStep(t, u) /\ tokens[u] # None
                /\ now + Skew >= tokens[u].expires_at)
            => /\ pc'[t] = "refreshing"
               /\ calls'[t] = 1
               /\ nOps' = nOps + 1
               /\ rt'[t] = tokens[u].refresh_token
       /\ \A t \in Threads, u \in Users :
            (GetCallStep(t, u) /\ tokens[u] # None
                /\ now + Skew < tokens[u].expires_at)
            => /\ pc'[t] = "returned"
               /\ ret'[t] = tokens[u]
               /\ calls'[t] = 0
               /\ nOps' = nOps
               /\ tokens' = tokens
       /\ \A t \in Threads :
            RefreshAssignStep(t)
            => /\ tokens'[usr[t]].access_token = rdata'[t].access_token
               /\ tokens'[usr[t]].expires_at = now + ExpiresInOf(rdata'[t])
               /\ \A u \in Users \ {usr[t]} : tokens'[u] = tokens[u]
       /\ \A t \in Threads :
            RefreshReturnStep(t)
            => /\ calls[t] = 1
               /\ nOps' = nOps
               /\ ret'[t] # None
               /\ ret'[t] = tokens'[usr[t]]
      ]_vars

\* a get that refreshed has returned the stored record, whose access token is
\* not the one of the stale record it read
C2_Witness ==
    \E t \in Threads :
        /\ pc[t] = "returned"
        /\ op[t] = "get"
        /\ calls[t] = 1
        /\ ret[t] # None
        /\ ret[t] = tokens[usr[t]]
        /\ ret[t].access_token # tok[t].access_token

\* C3: when the refresh POST fails, get returns no record, the credential map
\* and the snapshot are unchanged, the user's record is still present, and a
\* get made while the record is still the one that failed to refresh takes
\* the refresh branch again.
C3_FailedRefreshKeepsRecord ==
    [][/\ \A t \in Threads :
            (pc[t] = "refreshing" /\ pc'[t] = "returned")
            => /\ ret'[t] = None
               /\ tokens' = tokens
               /\ file' = file
               /\ tokens'[usr[t]] # None
       /\ \A t \in Threads, t2 \in Threads, u \in Users :
            (/\ FailedRefreshReturned(t)
             /\ usr[t] = u
             /\ tokens[u] = tok[t]
             /\ GetCallStep(t2, u))
            => (pc'[t2] = "refreshing" /\ rt'[t2] = tok[t].refresh_token)
      ]_vars

\* a refresh has failed and the record the get read is still stored
C3_Witness ==
    \E t \in Threads :
        /\ FailedRefreshReturned(t)
        /\ tokens[usr[t]] = tok[t]

\* C4: a record returned by get never has expires_at in the past by more
\* than the skew.
C4_ReturnedRecordNotExpired ==
    \A t \in Threads :
        (pc[t] = "returned" /\ op[t] = "get" /\ ret[t] # None)
            => ret[t].expires_at >= now - Skew

\* a get was called on a record expired by more than the skew and returned
\* a record
C4_Witness ==
    \E t \in Threads :
        /\ pc[t] = "returned"
        /\ op[t] = "get"
        /\ calls[t] = 1
        /\ ret[t] # None
        /\ tok[t].expires_at < callTime[t] - Skew

\* C5: a get for a user without a record returns no record, issues no token
\* POST and leaves the credential map and the snapshot unchanged.
C5_GetWithoutRecord ==
    [][\A t \in Threads, u \in Users :
            (GetCallStep(t, u) /\ tokens[u] = None)
            => /\ pc'[t] = "returned"
               /\ ret'[t] = None
               /\ calls'[t] = 0
               /\ nOps' = nOps
               /\ tokens' = tokens
               /\ file' = file
      ]_vars

\* a get for a user without a record has returned
C5_Witness ==
    \E t \in Threads :
        /\ pc[t] = "returned"
        /\ op[t] = "get"
        /\ calls[t] = 0
        /\ ret[t] = None
        /\ tokens[usr[t]] = None

\* C6: every refresh carries the record's refresh token forward unchanged:
\* the refresh token stored after the refresh is the one stored before it.
C6_RefreshKeepsRefreshToken ==
    [][\A t \in Threads :
            RefreshAssignStep(t)
            => tokens'[usr[t]].refresh_token = tokens[usr[t]].refresh_token
      ]_vars

\* C7 as stated: when the refresh response carries a refresh_token, the
\* record's refresh token becomes that value.
C7_ResponseTokenReplaces ==
    [][\A t \in Threads :
            (RefreshAssignStep(t) /\ rdata'[t].refresh_token # NoToken)
            => tokens'[usr[t]].refresh_token = rdata'[t].refresh_token
      ]_vars

\* C7 as amended: a refresh_token in the refresh response is ignored; a
\* successful refresh stores the refresh token the POST was made with, and
\* every refresh POST is made with the refresh token of the record get read.
C7_ResponseTokenIgnored ==
    [][/\ \A t \in Threads :
            RefreshAssignStep(t)
            => tokens'[usr[t]].refresh_token = rt[t]
       /\ \A t \in Threads, u \in Users :
            (GetCallStep(t, u) /\ pc'[t] = "refreshing")
            => rt'[t] = tokens[u].refresh_token
      ]_vars

\* a refresh whose response carried a different refresh token has stored the
\* token the POST was made with
C7_Witness ==
    \E t \in Threads :
        /\ pc[t] = "save_iter"
        /\ op[t] = "get"
        /\ rdata[t].refresh_token \notin {NoToken, rt[t]}
        /\ tokens[usr[t]].refresh_token = rt[t]

\* C8: when no set is in progress and a set has completed since the load,
\* the snapshot holds exactly the in-memory record set.
C8_SnapshotEqualsMap ==
    (NoSaveInProgress /\ ~loaded) => file = JsonDump(SaveData(tokens))

\* C9: saving a record set and loading the document gives the same user ids
\* with the same access token, refresh token and expires_at; the map in
\* memory after a process start is the load of the file.
C9_SaveLoadRoundTrip ==
    /\ LoadTokens(JsonDump(SaveData(tokens))) = tokens
    /\ loaded => tokens = LoadTokens(file)

\* the process was started on a snapshot that holds a record stored in this
\* run, whose expiry lies more than an hour after the epoch of the clock
C9_Witness ==
    /\ loaded
    /\ nOps >= 2
    /\ \E u \in Users :
        /\ tokens[u] # None
        /\ tokens[u].expires_at > LiveRecord.expires_at

\* C10: snapshot writes never interleave: whenever no thread is between
\* open and close, the file is absent or one complete document.
C10_SnapshotIsOneDocument ==
    (\A t \in Threads : pc[t] # "save_write")
        => \/ file = <<>>
           \/ /\ ParseOk(file)
              /\ JsonDump(SaveData(LoadTokens(file))) = file

\* C11: in every state of the credential cache, every record that has an
\* access token also has a non-empty refresh token: after authorization
\* callbacks (with and without a refresh_token in the token response), sets,
\* refreshes and loads of the snapshot.
C11_RecordHasRefreshToken ==
    \A u \in Users :
        (tokens[u] # None /\ tokens[u].access_token # "")
            => tokens[u].refresh_token # NoToken

\* a callback whose token response had no refresh_token has returned: it
\* stored nothing for its user, while another user has a record
C11_Witness ==
    \E t \in Threads :
        /\ pc[t] = "returned"
        /\ op[t] = "set"
        /\ tokens[usr[t]] = None
        /\ \E u \in Users : tokens[u] # None /\ tokens[u].access_token # ""

\* C12: no step of get, set or refresh (successful or failed) deletes a
\* record: a user who has a record before the step has one after it.  (A
\* process start replaces the whole map by the load of the snapshot and is
\* not one of these operations.)
C12_RecordNeverDeleted ==
    [][Restart \/ \A u \in Users : tokens[u] # None => tokens'[u] # None]_vars

\* a refresh has failed for a user after a set was made in this run, and the
\* user's record is still in the map
C12_Witness ==
    \E t \in Threads :
        /\ FailedRefreshReturned(t)
        /\ ~loaded
        /\ tokens[usr[t]] # None

\* ------------------------------------------- claims on the pipeline

\* remove_duplicates has run its duplicate loop on `tracks`
RemovePartitioned ==
    /\ endpoint = "remove_duplicates"
    /\ \/ at \in {"delete", "verify"}
       \/ at = "done" /\ (sent # <<>> \/ answer.code = 200)

\* find_duplicates has run its duplicate loop on `tracks`
FindPartitioned ==
    /\ endpoint = "find_duplicates"
    /\ at = "done"
    /\ answer.code = 200

\* the indices of the entries of `tracks` (raw page items) that have a track
\* and follow an entry with the same (name, artist)
LaterOccurrences2 ==
    {idx \in 1..Len(tracks) :
        /\ tracks[idx].track
        /\ \E j \in 1..(idx - 1) :
              tracks[j].track /\ Key2(tracks[j]) = Key2(tracks[idx])}

\* the indices of the entries of `tracks` (track dicts) that follow an entry
\* with the same (name, artist, album, duration_ms)
LaterOccurrences4 ==
    {idx \in 1..Len(tracks) :
        \E j \in 1..(idx - 1) : Key4(tracks[j]) = Key4(tracks[idx])}

\* the entries of list at the indices in idxs, with their indices, in order
AtIndices(list, idxs) ==
    SelectSeq([j \in 1..Len(list) |-> <<j, list[j]>>],
              LAMBDA pr : pr[1] \in idxs)

\* C13: the duplicate partition keeps the first occurrence of every identity
\* key and classifies exactly the later occurrences as duplicates, in the
\* order of the list: under the (name, artist) key of remove_duplicates and
\* under the 4-tuple key of find_duplicates; on [(A,X),(B,Y),(A,X)] the
\* duplicates are the third item alone.
C13_PartitionKeepsFirstOccurrence ==
    /\ RemovePartitioned =>
          LET later == AtIndices(tracks, LaterOccurrences2)
          IN duplicates = [j \in 1..Len(later) |->
                              [uri |-> later[j][2].uri,
                               positions |-> <<later[j][1] - 1>>]]
    /\ FindPartitioned =>
          LET later == AtIndices(tracks, LaterOccurrences4)
          IN duplicates = [j \in 1..Len(later) |-> later[j][2]]
    /\ DuplicatesToRemove(<<TrackItem("u:1", "A", "X", "L1", 1),
                            TrackItem("u:2", "B", "Y", "L2", 2),
                            TrackItem("u:1", "A", "X", "L1", 1)>>)
          = <<[uri |-> "u:1", positions |-> <<2>>]>>

\* remove_duplicates has partitioned the list [(A,X),(B,Y),(A,X)]
C13_Witness ==
    /\ RemovePartitioned
    /\ at = "delete"
    /\ Len(tracks) = 3
    /\ tracks[2].name = "B"
    /\ duplicates = <<[uri |-> "u:1", positions |-> <<2>>]>>

\* C14: the duplicate partition is idempotent: the list that remains when
\* the duplicates found are taken out of the list has no duplicates, so a
\* second run removes nothing and retains the same list.
C14_PartitionIdempotent ==
    /\ RemovePartitioned =>
          DuplicatesToRemove(ApplyDelete(tracks, duplicates)) = <<>>
    /\ FindPartitioned =>
          LET first == AtIndices(tracks,
                                 (1..Len(tracks)) \ LaterOccurrences4)
          IN DuplicatesFound([j \in 1..Len(first) |-> first[j][2]]) = <<>>

\* remove_duplicates found more duplicates than one batch holds in a list
\* with two different keys
C14_Witness ==
    /\ RemovePartitioned
    /\ at = "delete"
    /\ Len(duplicates) > BatchSize
    /\ \E j \in 1..Len(tracks) : tracks[j].track /\ tracks[j].name = "B"

\* ceil(a / b)
CeilDiv(a, b) == (a + b - 1) \div b

RECURSIVE Concat(_)
Concat(chunks) ==
    IF chunks = <<>> THEN <<>> ELSE Head(chunks) \o Concat(Tail(chunks))

\* the batches the loop `for i in range(0, len(list), 100)` makes of list
Batches(list) ==
    LET starts == Range(0, Len(list), BatchSize)
    IN [c \in 1..Len(starts) |->
            Slice(list, starts[c], starts[c] + BatchSize)]

\* the list a batch loop in progress is chunking
BatchedList ==
    IF endpoint = "remove_duplicates" THEN duplicates ELSE tracks

InBatchLoop ==
    \/ endpoint = "remove_duplicates" /\ RemovePartitioned
    \/ endpoint = "generate_playlist" /\ at \in {"add", "done"}

\* C15: the batch loops cut a list of length L into ceil(L/100) chunks of at
\* most 100 entries whose concatenation, in order, is the list; the calls
\* issued so far carry these chunks in order.
C15_ChunksPartitionList ==
    InBatchLoop =>
        LET chunks == Batches(BatchedList) IN
        /\ Len(chunks) = CeilDiv(Len(BatchedList), BatchSize)
        /\ Concat(chunks) = BatchedList
        /\ \A c \in 1..Len(chunks) :
              Len(chunks[c]) >= 1 /\ Len(chunks[c]) <= BatchSize
        /\ Len(sent) <= Len(chunks)
        /\ \A c \in 1..Len(sent) : sent[c].entries = Len(chunks[c])

\* generate_playlist added a list of more than 100 uris in two calls, the
\* second one a partial batch
C15_Witness ==
    /\ endpoint = "generate_playlist"
    /\ at = "done"
    /\ answer.code = 200
    /\ Len(sent) = 2
    /\ sent[2].entries < BatchSize
    /\ Len(new_playlist) = Len(tracks)

\* C16: a failed delete chunk does not block the later chunks: when
\* remove_duplicates has stopped after a failed DELETE, a DELETE was issued
\* for every chunk of the duplicates.
C16_FailedChunkDoesNotBlock ==
    (/\ endpoint = "remove_duplicates"
     /\ at = "done"
     /\ sent # <<>>
     /\ ~sent[Len(sent)].ok)
        => Len(sent) = Len(Batches(duplicates))

\* C17: after a page fetch got a non-2xx answer or failed, the handler has
\* stopped with an error answer: it computes and answers nothing from the
\* pages fetched before.
C17_PageFailureAborts ==
    pageFailed => (at = "done" /\ answer.code >= 400)

\* C18: when the remote keeps answering with a cursor that was fetched
\* before, a pagination loop that is under way ends: the handler leaves the
\* loop instead of fetching the same page again and again.
C18_LoopingPaginationStops ==
    (looping /\ at \in {"fetch", "verify"}) ~> (at \notin {"fetch", "verify"})

\* C19: while every page fetch of remove_duplicates succeeds and the remote
\* follows its cursors, the accumulator holds the items of the pages fetched
\* so far in the remote's order, and at the end of the loop the whole
\* playlist: no item dropped, duplicated or reordered.
C19_CollectAllKeepsOrder ==
    (endpoint = "remove_duplicates" /\ ~looping /\ ~pageFailed) =>
        /\ at = "fetch" => tracks = Slice(remote, 0, url)
        /\ at = "partition" => tracks = remote
        /\ (at = "verify" /\ url # NoUrl)
              => final_tracks = Slice(remote, 0, url)
        /\ (at = "done" /\ sent # <<>> /\ answer.code = 200)
              => /\ final_tracks = remote
                 /\ answer.body.remaining_tracks = Len(remote)

\* remove_duplicates has collected a playlist of more than one page that
\* holds an item without a track
C19_Witness ==
    /\ endpoint = "remove_duplicates"
    /\ at = "partition"
    /\ ~looping
    /\ Len(tracks) > PageSize
    /\ tracks = remote
    /\ \E j \in 1..Len(tracks) : ~tracks[j].track

\* C20: every mutation call (POST of uris, DELETE of tracks, PUT of uris)
\* carries at most 100 entries.
C20_MutationCallsBounded ==
    \A c \in 1..Len(sent) : sent[c].entries <= BatchSize

AllDeletesSucceeded == \A c \in 1..Len(sent) : sent[c].ok

\* C22: while the DELETE calls of remove_duplicates succeed, each call removes
\* one batch and removed_count is the number of duplicates sent so far; when
\* all have succeeded, exactly ceil(D/100) calls were issued for the D
\* duplicates and the answer reports removed_count = D.
C22_DeleteCallsAndCount ==
    (RemovePartitioned /\ duplicates # <<>> /\ AllDeletesSucceeded) =>
        /\ removed_count = Min(Len(sent) * BatchSize, Len(duplicates))
        /\ at \in {"verify", "done"} =>
              /\ Len(sent) = CeilDiv(Len(duplicates), BatchSize)
              /\ removed_count = Len(duplicates)
        /\ (at = "done" /\ answer.code = 200) =>
              answer.body.removed_count = Len(duplicates)

\* remove_duplicates answered success for a playlist of more than two pages
\* after one DELETE that carried all its duplicates
C22_Witness ==
    /\ endpoint = "remove_duplicates"
    /\ at = "done"
    /\ answer.code = 200
    /\ Len(tracks) > PageSize
    /\ Len(sent) = 1
    /\ sent[1].ok
    /\ answer.body.removed_count = Len(duplicates)
    /\ Len(duplicates) > 1

\* the first occurrences of `tracks` under the (name, artist) key, with the
\* items that have no track, in their order
FirstOccurrences2 ==
    LET first == AtIndices(tracks, (1..Len(tracks)) \ LaterOccurrences2)
    IN [j \in 1..Len(first) |-> first[j][2]]

\* C23: the positions of every DELETE batch, computed on the list fetched
\* before any deletion, designate on the playlist as it is when the batch is
\* sent the duplicates they were computed for; and when remove_duplicates
\* answers success the playlist holds the first occurrences in their order.
C23_PositionsDesignateDuplicates ==
    /\ (endpoint = "remove_duplicates" /\ at = "delete" /\ ~looping)
          => ValidDelete(remote,
                         Slice(duplicates, batchStart, batchStart + BatchSize))
    /\ (endpoint = "remove_duplicates" /\ at = "done" /\ sent # <<>>
            /\ answer.code = 200 /\ ~looping)
          => remote = FirstOccurrences2

\* C24: a handler that holds a record for its remote call (ret) got it the
\* way get_tokens hands it out: the record it read was more than five minutes
\* from expiring at that time, or a refresh was attempted first.
C24_NoStaleTokenWithoutRefresh ==
    \A t \in Threads :
        (pc[t] = "returned" /\ ret[t] # None)
            => (~IsStale(tok[t], callTime[t]) \/ calls[t] >= 1)

\* thread t, in callback, passes an authorization's tokens for user u to
\* set_tokens
SetAssignStep(t, u) ==
    /\ pc[t] = "idle"
    /\ pc'[t] = "save_iter"
    /\ op'[t] = "set"
    /\ usr'[t] = u

\* C25: the record of a user changes only in a step where set_tokens assigns
\* it for that user, called by callback or by a successful refresh for that
\* user; every other step of the handlers, a failed refresh and the direct
\* reads included, leaves every record unchanged, and a set or refresh for one
\* user leaves the records of the other users unchanged.  (A process start
\* replaces the whole map by the load of the snapshot and is not one of these
\* operations.)
C25_RecordsIsolated ==
    [][Restart \/ \A u \in Users :
            tokens'[u] # tokens[u]
            => \E t \in Threads :
                  \/ SetAssignStep(t, u)
                  \/ RefreshAssignStep(t) /\ usr[t] = u
      ]_vars

\* a set for one user and a refresh for the other have both assigned their
\* records in this run, and both records are in the map
C25_Witness ==
    \E t1, t2 \in Threads :
        /\ pc[t1] = "save_iter"
        /\ op[t1] = "set"
        /\ pc[t2] \in {"save_iter", "save_open", "save_write", "returned"}
        /\ op[t2] = "get"
        /\ calls[t2] = 1
        /\ rdata[t2] # NoResponse
        /\ usr[t1] # usr[t2]
        /\ tokens[usr[t1]] # None
        /\ tokens[usr[t2]] # None
        /\ tokens[usr[t2]].refresh_token = rt[t2]
====
